---- MODULE Spec2Model ----
(***************************************************************************)
(* A model of src/app.py, the MCQ quiz generator: the question generator   *)
(* generate_mcq_questions, the grading handler submit, and the             *)
(* check-then-fetch of the NLTK resources in ensure_nltk_data.             *)
(*                                                                         *)
(* Strings are sequences of one-character strings, so that substring       *)
(* search, case folding and prefix tests are computed, not assumed.        *)
(***************************************************************************)
EXTENDS Integers, Sequences, FiniteSets

\* ------------------------------------------------------------------ bounds

\* Longest input text, in sentences.
MaxSents == 3
\* Largest num_questions requested (the smallest is -1).
MaxNum == 2
\* Most questions a submitted form is about.
MaxForm == 2
\* Generation calls running at once in the process.
NumCalls == 2

\* ----------------------------------------------------------------- strings

UpperCase == <<"A","B","C","D","E","F","G","H","I","J","K","L","M",
               "N","O","P","Q","R","S","T","U","V","W","X","Y","Z">>
LowerCase == <<"a","b","c","d","e","f","g","h","i","j","k","l","m",
               "n","o","p","q","r","s","t","u","v","w","x","y","z">>

Range(s) == {s[k] : k \in DOMAIN s}

\* str.isalpha() of one character (ASCII letters).
IsAlphaChar(c) == c \in Range(UpperCase) \cup Range(LowerCase)

\* str.isalpha(): non-empty and every character a letter.
IsAlpha(w) == Len(w) > 0 /\ \A k \in 1..Len(w) : IsAlphaChar(w[k])

LowerChar(c) ==
    IF c \in Range(UpperCase)
    THEN LowerCase[CHOOSE k \in 1..26 : UpperCase[k] = c]
    ELSE c

\* str.lower()
Lower(w) == [k \in 1..Len(w) |-> LowerChar(w[k])]

\* Whether w occurs in s at position p.
OccursAt(s, w, p) ==
    /\ p >= 1
    /\ p + Len(w) - 1 <= Len(s)
    /\ SubSeq(s, p, p + Len(w) - 1) = w

\* str.find(), one-based: the first position of w in s, 0 when there is none.
Find(s, w) ==
    IF \E p \in 1..Len(s) : OccursAt(s, w, p)
    THEN CHOOSE p \in 1..Len(s) :
            OccursAt(s, w, p) /\ \A q \in 1..(p - 1) : ~OccursAt(s, w, q)
    ELSE 0

\* The mutant of Split: splits at the last occurrence (rsplit).
SplitLast(s, w) ==
    IF \E p \in 1..Len(s) : OccursAt(s, w, p)
    THEN LET p == CHOOSE q \in 1..Len(s) :
                     OccursAt(s, w, q) /\ \A r \in (q + 1)..Len(s) : ~OccursAt(s, w, r)
         IN  <<SubSeq(s, 1, p - 1), SubSeq(s, p + Len(w), Len(s))>>
    ELSE <<s>>

\* sentence.split(answer_word, 1): the text before the first occurrence and
\* the text after it; the whole string alone when there is no occurrence.
Split(s, w) ==
    LET p == Find(s, w)
    IN  IF p = 0 THEN <<s>>
        ELSE <<SubSeq(s, 1, p - 1), SubSeq(s, p + Len(w), Len(s))>>

\* str.count(): the occurrences of w in s, left to right, not overlapping.
RECURSIVE Count(_, _)
Count(s, w) ==
    LET p == Find(s, w)
    IN  IF p = 0 THEN 0
        ELSE 1 + Count(SubSeq(s, p + Len(w), Len(s)), w)

\* " ".join(words)
RECURSIVE Join(_)
Join(ws) ==
    IF Len(ws) = 0 THEN <<>>
    ELSE IF Len(ws) = 1 THEN ws[1]
    ELSE ws[1] \o <<" ">> \o Join(Tail(ws))

RECURSIVE Flatten(_)
Flatten(ss) == IF Len(ss) = 0 THEN <<>> ELSE ss[1] \o Flatten(Tail(ss))

\* ------------------------------------------------------------------ inputs

blank == <<"_","_","_","_","_">>

cat  == <<"c","a","t">>
Cat  == <<"C","a","t">>
cats == <<"c","a","t","s">>
dog  == <<"d","o","g">>
mat  == <<"m","a","t">>
sun  == <<"s","u","n">>
the  == <<"t","h","e">>

\* stopwords.words("english"), as far as the vocabulary goes.
stop_words == {the}

\* The sentences input texts are made of.  Each is what the NLTK functions
\* make of it: words, its word tokens; text_nn, the positions pos_tag tags NN*
\* when it tags the whole text (line 143); nn, the positions it tags NN* when
\* it tags the sentence alone (line 168).
\*   1  a noun twice, and a stopword tagged as a noun
\*   2  a noun that is a substring of the word before it
\*   3  a sentence that holds the blank marker already
\*   4  a capitalised noun
\*   5  a noun tagged only in the sentence, so not in the pool by itself
\*   6  three nouns, the first tagged only in the whole text
Corpus ==
    { [words |-> <<cat, the, cat>>, text_nn |-> {1, 2, 3}, nn |-> {1, 2, 3}],
      [words |-> <<cats, cat>>,     text_nn |-> {1, 2},    nn |-> {2}],
      [words |-> <<blank, dog>>,    text_nn |-> {1, 2},    nn |-> {1, 2}],
      [words |-> <<Cat, mat>>,      text_nn |-> {1, 2},    nn |-> {1, 2}],
      [words |-> <<the, sun>>,      text_nn |-> {1},       nn |-> {1, 2}],
      [words |-> <<dog, mat, sun>>, text_nn |-> {1, 2, 3}, nn |-> {2, 3}] }

Texts == UNION {[1..n -> Corpus] : n \in 0..MaxSents}

\* --------------------------------------------------------------- the state

VARIABLES
    \* generate_mcq_questions
    text,           \* the input, as the NLTK functions split and tag it
    num_questions,  \* the input
    pc,             \* "start", "loop", "done"
    unique_nouns,   \* the global noun pool
    idx,            \* the sentence the loop is at
    mcq_list,       \* the records generated
    question_id,    \* the next id
    origin,         \* history: the sentence each record came from
    \* submit
    form,           \* request.form: the posted fields, in order
    spc,            \* "posted", "rendered"
    results,        \* the result records
    score,          \* the score
    graded,         \* history: the qid each result record was made for
    \* ensure_nltk_data
    present,        \* which resources nltk.data.find finds
    fetches,        \* history: the fetches of each resource begun
    call            \* where each concurrent call is

genVars == <<text, num_questions, pc, unique_nouns, idx, mcq_list, question_id, origin>>
subVars == <<form, spc, results, score, graded>>
nltkVars == <<present, fetches, call>>
vars == <<genVars, subVars, nltkVars>>

\* sent_tokenize(cleaned_text)
sentences == [k \in 1..Len(text) |-> Join(text[k].words)]

\* pos_tag(word_tokenize(cleaned_text)): each token with whether its tag is NN*.
pos_tags ==
    Flatten([k \in 1..Len(text) |->
                [j \in 1..Len(text[k].words) |->
                    [word |-> text[k].words[j], noun |-> j \in text[k].text_nn]]])

\* ----------------------------------------------------- generate_mcq_questions

\* The list comprehension of line 146.
NounPool ==
    LET Keep(t) == t.noun /\ Lower(t.word) \notin stop_words /\ IsAlpha(t.word)
        kept == SelectSeq(pos_tags, Keep)
    IN  [k \in 1..Len(kept) |-> kept[k].word]

\* Lines 148-154: lower-cased, first occurrences only, in order.
Dedup(pool) ==
    LET RECURSIVE D(_, _)
        D(k, acc) == IF k > Len(pool) THEN acc
                     ELSE IF Lower(pool[k]) \in Range(acc) THEN D(k + 1, acc)
                     ELSE D(k + 1, Append(acc, Lower(pool[k])))
    IN  D(1, <<>>)

\* Whether word j of sentence k is tagged NN* and is, lower-cased, in the pool.
Eligible(k, j, pool) == j \in text[k].nn /\ Lower(text[k].words[j]) \in Range(pool)

\* The mutant of AnswerIndex: the last eligible word.
AnswerIndexLast(k, pool) ==
    IF \E j \in 1..Len(text[k].words) : Eligible(k, j, pool)
    THEN CHOOSE j \in 1..Len(text[k].words) :
            Eligible(k, j, pool) /\ \A h \in (j + 1)..Len(text[k].words) : ~Eligible(k, h, pool)
    ELSE 0

\* Lines 169-174: the position of the first eligible word of sentence k, 0 for none.
AnswerIndex(k, pool) ==
    IF \E j \in 1..Len(text[k].words) : Eligible(k, j, pool)
    THEN CHOOSE j \in 1..Len(text[k].words) :
            Eligible(k, j, pool) /\ \A h \in 1..(j - 1) : ~Eligible(k, h, pool)
    ELSE 0

\* Lines 180-183.
QuestionText(sentence, answer_word) ==
    LET parts == Split(sentence, answer_word)
    IN  parts[1] \o blank \o parts[2]

\* The mutant of DistractorPool: compares the answer in its original casing.
DistractorPoolCased(pool, answer_word) ==
    LET Other(n) == n # answer_word IN SelectSeq(pool, Other)

\* Line 186.
DistractorPool(pool, answer_word) ==
    LET Other(n) == n # Lower(answer_word) IN SelectSeq(pool, Other)

\* The mutant of NumDistractors: no cap.
NumDistractorsAll(dpool) == Len(dpool)

\* Line 188.
NumDistractors(dpool) == IF Len(dpool) < 3 THEN Len(dpool) ELSE 3

\* random.sample(dpool, k): k entries at distinct positions, in any order.
Sample(dpool, k) ==
    {[j \in 1..k |-> dpool[p[j]]] :
        p \in {q \in [1..k -> 1..Len(dpool)] :
                 \A a, b \in 1..k : a # b => q[a] # q[b]}}

\* The list s as the bag of its entries: each entry with the number of times
\* it occurs.  random.shuffle(options) rearranges the list and leaves this bag
\* as it is; options is kept as the bag, the order being the random source's.
Shuffle(s) == [e \in Range(s) |-> Cardinality({k \in DOMAIN s : s[k] = e})]

\* len(options)
Size(b) ==
    LET RECURSIVE Sum(_)
        Sum(S) == IF S = {} THEN 0
                  ELSE LET e == CHOOSE x \in S : TRUE IN b[e] + Sum(S \ {e})
    IN  Sum(DOMAIN b)

\* Lines 186-192: the options the random source can produce.
Options(pool, answer_word) ==
    LET dpool == DistractorPool(pool, answer_word)
        k == NumDistractors(dpool)
    IN  {Shuffle(d \o <<answer_word>>) : d \in Sample(dpool, k)}

\* The mutant of LimitReached: one record too late.
LimitReachedLate == Len(mcq_list) > num_questions

\* Line 164: the test of the break.
LimitReached == Len(mcq_list) >= num_questions

\* The mutant of RecordId: the position of the sentence, as enumerate() gives it.
RecordIdOfSentence == idx - 1

\* Line 194: the id the next record gets.
RecordId == question_id

Init ==
    /\ text \in Texts
    /\ num_questions \in -1..MaxNum
    /\ pc = "start"
    /\ unique_nouns = <<>>
    /\ idx = 1
    /\ mcq_list = <<>>
    /\ question_id = 0
    /\ origin = <<>>
    /\ form = <<>> /\ spc = "idle" /\ results = <<>> /\ score = 0 /\ graded = <<>>
    /\ present = <<>> /\ fetches = <<>> /\ call = <<>>

\* Lines 133-161: the global pool, and the early return when it is empty.
BuildPool ==
    /\ pc = "start"
    /\ unique_nouns' = Dedup(NounPool)
    /\ pc' = IF unique_nouns' = <<>> THEN "done" ELSE "loop"
    /\ UNCHANGED <<text, num_questions, idx, mcq_list, question_id, origin>>
    /\ UNCHANGED <<subVars, nltkVars>>

\* Lines 163-165 and 198: the loop ends, by the break or after the last sentence.
Return ==
    /\ pc = "loop"
    /\ idx > Len(text) \/ LimitReached
    /\ pc' = "done"
    /\ UNCHANGED <<text, num_questions, unique_nouns, idx, mcq_list, question_id, origin>>
    /\ UNCHANGED <<subVars, nltkVars>>

\* Lines 166-176: a sentence without an eligible noun.
Skip ==
    /\ pc = "loop"
    /\ idx <= Len(text)
    /\ ~LimitReached
    /\ AnswerIndex(idx, unique_nouns) = 0
    /\ idx' = idx + 1
    /\ UNCHANGED <<text, num_questions, pc, unique_nouns, mcq_list, question_id, origin>>
    /\ UNCHANGED <<subVars, nltkVars>>

\* Lines 166-196: a sentence with an eligible noun yields a record.
Generate ==
    /\ pc = "loop"
    /\ idx <= Len(text)
    /\ ~LimitReached
    /\ AnswerIndex(idx, unique_nouns) # 0
    /\ LET answer_word == text[idx].words[AnswerIndex(idx, unique_nouns)]
       IN  \E options \in Options(unique_nouns, answer_word) :
              mcq_list' = Append(mcq_list,
                  [id |-> RecordId,
                   question |-> QuestionText(sentences[idx], answer_word),
                   options |-> options,
                   answer |-> answer_word])
    /\ question_id' = question_id + 1
    /\ origin' = Append(origin, idx)
    /\ idx' = idx + 1
    /\ UNCHANGED <<text, num_questions, pc, unique_nouns>>
    /\ UNCHANGED <<subVars, nltkVars>>

Next == BuildPool \/ Return \/ Skip \/ Generate

Spec == Init /\ [][Next]_vars

\* ------------------------------------------------------------------ submit

\* What request.form.get gives for a missing key: a value no string equals.
None == <<"None">>

Digits == <<"0","1","2","3","4","5","6","7","8","9">>

\* str(i), for one digit.
Str(i) == <<Digits[i + 1]>>

q_prefix        == <<"q">>
answer_prefix   == <<"a","n","s","w","e","r">>
question_prefix == <<"q","u","e","s","t","i","o","n">>

\* str.startswith
StartsWith(s, prefix) ==
    Len(s) >= Len(prefix) /\ SubSeq(s, 1, Len(prefix)) = prefix

\* request.form.get(key)
Get(f, key) ==
    IF \E k \in 1..Len(f) : f[k].key = key
    THEN f[CHOOSE k \in 1..Len(f) :
              f[k].key = key /\ \A h \in 1..(k - 1) : f[h].key # key].value
    ELSE None

\* The mutant of IsCorrect: compares without regard to case.
IsCorrectAnyCase(user_answer, correct_answer) ==
    Lower(user_answer) = Lower(correct_answer)

\* Line 247.
IsCorrect(user_answer, correct_answer) == user_answer = correct_answer

\* Line 240: the keys the loop grades.
IsAnswerKey(key) == StartsWith(key, q_prefix) /\ ~StartsWith(key, answer_prefix)

\* Lines 239-255: the loop over the form's keys from position k on, with the
\* results, the score and the qids so far.
RECURSIVE Grade(_, _, _)
Grade(f, k, acc) ==
    IF k > Len(f) THEN acc
    ELSE IF ~IsAnswerKey(f[k].key) THEN Grade(f, k + 1, acc)
    ELSE LET qid == Tail(f[k].key)
             user_answer == Get(f, f[k].key)
             correct_answer == Get(f, answer_prefix \o qid)
             question_text == Get(f, question_prefix \o qid)
             is_correct == IsCorrect(user_answer, correct_answer)
         IN  Grade(f, k + 1,
                [results |-> Append(acc.results,
                     [question |-> IF question_text = None THEN <<>> ELSE question_text,
                      user_answer |-> user_answer,
                      correct |-> correct_answer,
                      is_correct |-> is_correct]),
                 score |-> IF is_correct THEN acc.score + 1 ELSE acc.score,
                 graded |-> Append(acc.graded, qid)])

\* The values a form's fields take.
AnswerValues == {cat, Cat}
QuestionValue == blank \o <<" ">> \o mat

\* The fields a form holds for question i: its q, answer and question fields,
\* each there (with value u, c, t) or missing (None).
Block(i, u, c, t) ==
    (IF u = None THEN <<>> ELSE <<[key |-> q_prefix \o Str(i), value |-> u]>>)
    \o (IF c = None THEN <<>> ELSE <<[key |-> answer_prefix \o Str(i), value |-> c]>>)
    \o (IF t = None THEN <<>> ELSE <<[key |-> question_prefix \o Str(i), value |-> t]>>)

Blocks(i) ==
    {Block(i, u, c, t) : u \in AnswerValues \cup {None},
                         c \in AnswerValues \cup {None},
                         t \in {QuestionValue, None}}

Orders(n) == {o \in [1..n -> 0..(n - 1)] : \A a, b \in 1..n : a # b => o[a] # o[b]}

\* The forms about n questions: their blocks, in any order of the questions.
Forms(n) ==
    UNION {{Flatten([k \in 1..n |-> b[o[k]]]) : o \in Orders(n)} :
              b \in {c \in [0..(n - 1) -> UNION {Blocks(i) : i \in 0..(n - 1)}] :
                        \A i \in 0..(n - 1) : c[i] \in Blocks(i)}}

InitSubmit ==
    /\ form \in UNION {Forms(n) : n \in 0..MaxForm}
    /\ spc = "posted"
    /\ results = <<>> /\ score = 0 /\ graded = <<>>
    /\ text = <<>> /\ num_questions = 0 /\ pc = "idle" /\ unique_nouns = <<>>
    /\ idx = 1 /\ mcq_list = <<>> /\ question_id = 0 /\ origin = <<>>
    /\ present = <<>> /\ fetches = <<>> /\ call = <<>>

\* Lines 230-256.
Submit ==
    /\ spc = "posted"
    /\ LET g == Grade(form, 1, [results |-> <<>>, score |-> 0, graded |-> <<>>])
       IN  /\ results' = g.results
           /\ score' = g.score
           /\ graded' = g.graded
    /\ spc' = "rendered"
    /\ UNCHANGED <<form, genVars, nltkVars>>

NextSubmit == Submit

SpecSubmit == InitSubmit /\ [][NextSubmit]_vars

\* -------------------------------------------------------- ensure_nltk_data

\* The resources, in the order ensure_nltk_data looks for them.
Resources == <<"punkt", "averaged_perceptron_tagger", "stopwords">>

Calls == 1..NumCalls

InitNltk ==
    /\ present \in [1..Len(Resources) -> BOOLEAN]
    /\ fetches = [r \in 1..Len(Resources) |-> 0]
    /\ call = [c \in Calls |-> [res |-> 1, at |-> "find"]]
    /\ text = <<>> /\ num_questions = 0 /\ pc = "idle" /\ unique_nouns = <<>>
    /\ idx = 1 /\ mcq_list = <<>> /\ question_id = 0 /\ origin = <<>>
    /\ form = <<>> /\ spc = "idle" /\ results = <<>> /\ score = 0 /\ graded = <<>>

Goto(c, r, where) == call' = [call EXCEPT ![c] = [res |-> r, at |-> where]]

\* Lines 73-74, 78-79, 83-84: nltk.data.find finds the resource.
FindPresent(c) ==
    /\ call[c].at = "find"
    /\ call[c].res <= Len(Resources)
    /\ present[call[c].res]
    /\ Goto(c, call[c].res + 1, "find")
    /\ UNCHANGED <<present, fetches, genVars, subVars>>

\* Lines 75, 80, 85: nltk.data.find raises LookupError.
FindAbsent(c) ==
    /\ call[c].at = "find"
    /\ call[c].res <= Len(Resources)
    /\ ~present[call[c].res]
    /\ Goto(c, call[c].res, "download")
    /\ UNCHANGED <<present, fetches, genVars, subVars>>

\* Lines 76, 81, 86: nltk.download is called; it skips a resource that is
\* installed by now.
DownloadSkip(c) ==
    /\ call[c].at = "download"
    /\ present[call[c].res]
    /\ Goto(c, call[c].res + 1, "find")
    /\ UNCHANGED <<present, fetches, genVars, subVars>>

\* Lines 76, 81, 86: nltk.download begins to fetch a resource not installed.
DownloadBegin(c) ==
    /\ call[c].at = "download"
    /\ ~present[call[c].res]
    /\ fetches' = [fetches EXCEPT ![call[c].res] = @ + 1]
    /\ Goto(c, call[c].res, "fetch")
    /\ UNCHANGED <<present, genVars, subVars>>

\* Lines 76, 81, 86: the fetch ends, and the resource is installed.
DownloadEnd(c) ==
    /\ call[c].at = "fetch"
    /\ present' = [present EXCEPT ![call[c].res] = TRUE]
    /\ Goto(c, call[c].res + 1, "find")
    /\ UNCHANGED <<fetches, genVars, subVars>>

NextNltk ==
    \E c \in Calls :
        \/ FindPresent(c)
        \/ FindAbsent(c)
        \/ DownloadSkip(c)
        \/ DownloadBegin(c)
        \/ DownloadEnd(c)

SpecNltk == InitNltk /\ [][NextNltk]_vars

\* ------------------------------------------------- claims: the generator

Min(a, b) == IF a < b THEN a ELSE b
Max(a, b) == IF a < b THEN b ELSE a

Records == {mcq_list[k] : k \in 1..Len(mcq_list)}

\* C1: in every record the answer is one of the options, and the options
\* number between 1 and 4.
C1_AnswerAmongOptions ==
    \A r \in Records :
        /\ r.answer \in DOMAIN r.options
        /\ Size(r.options) >= 1
        /\ Size(r.options) <= 4

\* A call has returned a record with four options, from a pool of five nouns.
C1_Witness ==
    /\ pc = "done"
    /\ Len(unique_nouns) = 5
    /\ \E r \in Records : Size(r.options) = 4 /\ r.answer \in DOMAIN r.options

\* C2: the question text of every returned record holds the blank marker
\* exactly once, also when the sentence held the marker already.
C2_BlankExactlyOnce ==
    pc = "done" => \A r \in Records : Count(r.question, blank) = 1

\* The sentences with a word that pos_tag tags NN* in the sentence and whose
\* lower-case form is in the pool.
EligibleSentences ==
    {k \in 1..Len(text) :
        \E j \in 1..Len(text[k].words) :
            j \in text[k].nn /\ Lower(text[k].words[j]) \in Range(unique_nouns)}

\* C3: the call returns min(max(num_questions, 0), E) records, E the number
\* of sentences with an eligible noun: none for num_questions <= 0 and for an
\* empty pool, never more than a num_questions >= 0.
C3_ResultLength ==
    pc = "done" =>
        /\ Len(mcq_list) = Min(Max(num_questions, 0), Cardinality(EligibleSentences))
        /\ num_questions <= 0 => mcq_list = <<>>
        /\ unique_nouns = <<>> => mcq_list = <<>>
        /\ num_questions >= 0 => Len(mcq_list) <= num_questions

\* A call has returned fewer records than the text has eligible sentences,
\* because num_questions was reached.
C3_Witness ==
    /\ pc = "done"
    /\ num_questions = 1
    /\ Cardinality(EligibleSentences) >= 2
    /\ Len(mcq_list) = 1

\* C4: the record at position i (from 0) has id i, whatever was skipped.
C4_IdsContiguous ==
    \A k \in 1..Len(mcq_list) : mcq_list[k].id = k - 1

\* A call has returned two records with a skipped sentence between them.
C4_Witness ==
    /\ pc = "done"
    /\ \E k \in 1..(Len(mcq_list) - 1) : origin[k + 1] > origin[k] + 1

\* C5: every answer is the first word of its sentence that is tagged NN* and,
\* lower-cased, in the pool (so alphabetic and no stopword); a sentence with no
\* such word gives no record; the records are in the order of their sentences.
C5_FirstEligibleNoun ==
    /\ Len(origin) = Len(mcq_list)
    /\ \A k \in 1..Len(mcq_list) :
          LET ws == text[origin[k]].words
              nn == text[origin[k]].nn
              Ok(j) == j \in nn /\ Lower(ws[j]) \in Range(unique_nouns)
          IN  /\ \E j \in 1..Len(ws) :
                    /\ ws[j] = mcq_list[k].answer
                    /\ Ok(j)
                    /\ \A h \in 1..(j - 1) : ~Ok(h)
              /\ IsAlpha(Lower(mcq_list[k].answer))
              /\ Lower(mcq_list[k].answer) \notin stop_words
    /\ \A s \in 1..(idx - 1) : s \in EligibleSentences <=> s \in Range(origin)
    /\ \A k \in 1..(Len(origin) - 1) : origin[k] < origin[k + 1]

\* A record's answer is not the first word of its sentence, and a sentence
\* before it gave no record.
C5_Witness ==
    /\ pc = "done"
    /\ \E k \in 1..Len(mcq_list) :
          /\ mcq_list[k].answer # text[origin[k]].words[1]
          /\ \E s \in 1..(origin[k] - 1) : s \notin Range(origin)

\* C6: the question text is the sentence with the first literal occurrence of
\* the answer replaced by the blank marker: no occurrence of the answer
\* before the blank, the rest of the sentence unchanged after it.
C6_FirstOccurrenceBlanked ==
    \A k \in 1..Len(mcq_list) :
        LET s == sentences[origin[k]]
            a == mcq_list[k].answer
            q == mcq_list[k].question
        IN  \E p \in 1..Len(s) :
               /\ OccursAt(s, a, p)
               /\ \A h \in 1..(p - 1) : ~OccursAt(s, a, h)
               /\ \A h \in 1..(p - 1) : ~OccursAt(SubSeq(s, 1, p - 1), a, h)
               /\ Len(q) = Len(s) - Len(a) + Len(blank)
               /\ SubSeq(q, 1, p - 1) = SubSeq(s, 1, p - 1)
               /\ SubSeq(q, p, p + Len(blank) - 1) = blank
               /\ SubSeq(q, p + Len(blank), Len(q)) = SubSeq(s, p + Len(a), Len(s))

\* A record from a sentence that holds the answer twice: the second
\* occurrence is still in the question text.
C6_Witness ==
    /\ pc = "done"
    /\ \E k \in 1..Len(mcq_list) :
          /\ Count(sentences[origin[k]], mcq_list[k].answer) = 2
          /\ Count(mcq_list[k].question, mcq_list[k].answer) = 1

\* C10: the options other than the answer are min(3, P - 1) distinct entries
\* of the pool, none the answer's lower-case form; no option occurs twice, and
\* none is the answer in another casing.
C10_Distractors ==
    \A r \in Records :
        /\ Size(r.options) - 1 = Min(3, Len(unique_nouns) - 1)
        /\ \A e \in DOMAIN r.options :
              /\ r.options[e] = 1
              /\ e # r.answer =>
                    /\ e \in Range(unique_nouns)
                    /\ e # Lower(r.answer)
                    /\ Lower(e) # Lower(r.answer)

\* A record with a capitalised answer and three distractors from a pool of five.
C10_Witness ==
    /\ pc = "done"
    /\ Len(unique_nouns) = 5
    /\ \E r \in Records : r.answer = Cat /\ Size(r.options) = 4

\* ---------------------------------------------------- claims: the grading

\* C7, as claimed: is_correct is the equality of the submitted and the correct
\* answer, score counts the correct records, and a question whose answer or
\* question field is missing is graded incorrect.
C7_MissingFieldIncorrect ==
    spc = "rendered" =>
        /\ \A k \in 1..Len(results) :
              LET u == Get(form, q_prefix \o graded[k])
                  c == Get(form, answer_prefix \o graded[k])
                  t == Get(form, question_prefix \o graded[k])
              IN  /\ results[k].is_correct <=> (u = c)
                  /\ (c = None \/ t = None) => ~results[k].is_correct
        /\ score = Cardinality({k \in 1..Len(results) : results[k].is_correct})

\* C7, amended: is_correct is the exact, case-sensitive equality of the
\* submitted and the correct answer, score counts the correct records, a
\* missing answer field grades the question incorrect, and a missing question
\* field leaves the question text empty and the grading as it is.
C7_Grading ==
    spc = "rendered" =>
        /\ Len(graded) = Len(results)
        /\ \A k \in 1..Len(results) :
              LET u == Get(form, q_prefix \o graded[k])
                  c == Get(form, answer_prefix \o graded[k])
                  t == Get(form, question_prefix \o graded[k])
              IN  /\ results[k].is_correct <=> (u = c)
                  /\ c = None => ~results[k].is_correct
                  /\ t = None => results[k].question = <<>>
        /\ score = Cardinality({k \in 1..Len(results) : results[k].is_correct})

\* A form graded with a right answer whose question field is missing, and
\* with an answer that is right but for its case.
C7_Witness ==
    /\ spc = "rendered"
    /\ \E k \in 1..Len(results) :
          /\ results[k].is_correct
          /\ Get(form, question_prefix \o graded[k]) = None
    /\ \E k \in 1..Len(results) :
          /\ ~results[k].is_correct
          /\ results[k].user_answer = Cat
          /\ results[k].correct = cat

\* The ids of the q fields of a form, in the order of the fields.
QFieldIds(f) ==
    LET IsQ(fld) == \E i \in 0..9 : fld.key = q_prefix \o Str(i)
        qs == SelectSeq(f, IsQ)
    IN  [k \in 1..Len(qs) |-> Tail(qs[k].key)]

\* A form with the q, answer and question fields of each of its questions.
Complete(f) ==
    /\ f # <<>>
    /\ \A k \in 1..Len(f) :
          \E i \in 0..9 :
              /\ f[k].key \in {q_prefix \o Str(i), answer_prefix \o Str(i),
                               question_prefix \o Str(i)}
              /\ Get(f, q_prefix \o Str(i)) # None
              /\ Get(f, answer_prefix \o Str(i)) # None
              /\ Get(f, question_prefix \o Str(i)) # None

\* C8: a complete form gets one result record for each question id, in the
\* order of the q fields, and none for any other field.
C8_OneResultPerQuestion ==
    (spc = "rendered" /\ Complete(form)) => graded = QFieldIds(form)

\* ------------------------------------------------ claims: the NLTK resources

\* C9: whatever the interleaving of the concurrent calls, no resource is
\* fetched twice.
C9_FetchedAtMostOnce ==
    \A r \in 1..Len(Resources) : fetches[r] <= 1

====
